---- MODULE Spec2Model ----
(***************************************************************************)
(* A model of pubsubc (src/main.go): the main loop over the numbered       *)
(* PUBSUB_PROJECT<i> environment variables, the structural parse of one    *)
(* variable, and create(), which opens a client for the project and issues *)
(* the CreateTopic / CreateSubscription calls.                             *)
(*                                                                         *)
(* Strings are sequences of one-character strings, so that strings.Split   *)
(* and strings.Replace are computed on characters.  The Pub/Sub service is *)
(* an external collaborator: each call to it answers "ok" or with one of   *)
(* the error causes, chosen nondeterministically.                          *)
(***************************************************************************)
EXTENDS Integers, Sequences, FiniteSets, TLC

(***************************************************************************)
(* Bounds of the model.                                                    *)
(***************************************************************************)
\* number of PUBSUB_PROJECT<i> variables that may be set; all later ones are absent
MaxEnv == 3

(***************************************************************************)
(* Characters and string literals of the program.                          *)
(***************************************************************************)
Comma == ","
Colon == ":"
Plus == "+"
Pipe == "|"

\* the literal "dlq" of the marker test
DlqLit == <<"d", "l", "q">>
\* the suffix of fmt.Sprintf("%s-dlq", ...)
DlqSuffix == <<"-", "d", "l", "q">>
\* the scheme prefix "http://"
HttpPrefix == <<"h", "t", "t", "p", ":", "/", "/">>
\* the suffix of fmt.Sprintf("http://%s/dead", ...)
DeadSuffix == <<"/", "d", "e", "a", "d">>
\* MaxDeliveryAttempts of the dead letter policy
MaxDeliveryAttempts == 5

(***************************************************************************)
(* strings.Index, strings.Split and strings.Replace(s, old, new, 1) for a  *)
(* one-character separator.                                                *)
(***************************************************************************)
Index(s, c) ==
    IF \E k \in 1..Len(s) : s[k] = c
    THEN CHOOSE k \in 1..Len(s) : s[k] = c /\ \A m \in 1..(k - 1) : s[m] # c
    ELSE 0

RECURSIVE Split(_, _)
Split(s, sep) ==
    LET k == Index(s, sep)
    IN  IF k = 0
        THEN <<s>>
        ELSE <<SubSeq(s, 1, k - 1)>> \o Split(SubSeq(s, k + 1, Len(s)), sep)

\* a variant of ReplaceFirst: every occurrence is replaced
ReplaceEvery(s, old, new) == [k \in 1..Len(s) |-> IF s[k] = old THEN new ELSE s[k]]

ReplaceFirst(s, old, new) ==
    LET k == Index(s, old)
    IN  IF k = 0
        THEN s
        ELSE SubSeq(s, 1, k - 1) \o <<new>> \o SubSeq(s, k + 1, Len(s))

\* parts[1:] of a Go slice
Tail1(parts) == SubSeq(parts, 2, Len(parts))

(***************************************************************************)
(* The values the environment variables are drawn from.  Join writes a     *)
(* value down from its fields; the program only ever sees the characters.  *)
(***************************************************************************)
RECURSIVE Join(_, _)
Join(parts, sep) ==
    IF Len(parts) = 0 THEN <<>>
    ELSE IF Len(parts) = 1 THEN parts[1]
    ELSE parts[1] \o <<sep>> \o Join(Tail(parts), sep)

Tok(segs) == Join(segs, Plus)
Field(topic, toks) == Join(<<topic>> \o toks, Colon)
EnvOf(proj, fields) == Join(<<proj>> \o fields, Comma)

\* subscription tokens, by shape
TokPlainS == Tok(<< <<"s">> >>)
TokPlainR == Tok(<< <<"r">> >>)
TokPush == Tok(<< <<"s">>, <<"h", "|", "8">> >>)
TokPush2 == Tok(<< <<"r">>, <<"h", "|", "8", "|", "9">> >>)
TokDlq == Tok(<< <<"s">>, <<"h", "|", "8">>, DlqLit >>)
TokDlqR == Tok(<< <<"r">>, <<"h">>, DlqLit >>)
TokDlqNoEp == Tok(<< <<"s">>, <<>>, DlqLit >>)
TokThirdX == Tok(<< <<"s">>, <<"h">>, <<"x">> >>)
TokFour == Tok(<< <<"s">>, <<"h">>, DlqLit, <<"x">> >>)
TokTwoDlq == Tok(<< <<"s">>, DlqLit >>)

\* every single-token topic field of topic "t"
OneTokenFields ==
    { Field(<<"t">>, <<tok>>) :
        tok \in {TokPlainS, TokPush, TokPush2, TokDlq, TokDlqNoEp, TokThirdX,
                 TokFour, TokTwoDlq, <<>>} }

EnvValues ==
    \* no topic field at all, and an empty project with an empty topic
    { <<"p">>, <<",">> }
    \* one topic without subscriptions
    \cup { EnvOf(<<"p">>, << Field(<<"t">>, <<>>) >>) }
    \* one topic with one token of each shape
    \cup { EnvOf(<<"p">>, <<f>>) : f \in OneTokenFields }
    \* one topic with two tokens
    \cup { EnvOf(<<"q">>, << Field(<<"t">>, <<TokPlainS, TokPush2>>) >>),
           EnvOf(<<"q">>, << Field(<<"t">>, <<TokDlq, TokDlqR>>) >>),
           EnvOf(<<"q">>, << Field(<<"t">>, <<TokDlqR, TokPlainS>>) >>) }
    \* two topic fields: distinct topics, and the same topic twice
    \cup { EnvOf(<<"q">>, << Field(<<"t">>, <<>>), Field(<<"u">>, <<>>) >>),
           EnvOf(<<"q">>, << Field(<<"t">>, <<TokPlainS>>), Field(<<"u">>, <<TokDlqR>>) >>),
           EnvOf(<<"q">>, << Field(<<"t">>, <<TokPlainS>>), Field(<<"t">>, <<TokPlainR>>) >>),
           EnvOf(<<"q">>, << Field(<<"t">>, <<TokPush>>), Field(<<"t">>, <<>>) >>) }

\* the values of the variables after the first: one of each kind of those above
LaterValues ==
    { <<"p">>,
      EnvOf(<<"p">>, << Field(<<"t">>, <<>>) >>),
      EnvOf(<<"p">>, << Field(<<"t">>, <<TokDlq>>) >>),
      EnvOf(<<"q">>, << Field(<<"t">>, <<TokPlainS>>), Field(<<"u">>, <<TokDlqR>>) >>) }

\* an unset variable reads as the empty string
Unset == <<>>

(***************************************************************************)
(* The answers of the Pub/Sub service.                                     *)
(***************************************************************************)
Causes == {"AlreadyExists", "Unavailable"}
Results == {"ok"} \cup Causes

VARIABLES
    environ,        \* the process environment: index -> value of PUBSUB_PROJECT<index>
    i,              \* loop counter of main
    pc,             \* where the process is
    exitCode,       \* -1 while running, else the exit status
    projectID,      \* parts[0] of the current variable
    topics,         \* the Topics map of the current variable
    remaining,      \* keys of topics the range loop has not visited yet
    topicID,        \* key of the current iteration of the range loop
    topic,          \* handle returned by CreateTopic(topicID)
    j,              \* index of the current subscription in topics[topicID]
    dlqTopic,       \* handle returned by CreateTopic(dlqTopicID)
    sessions,       \* open clients, named by the index of their variable
    err,            \* the error create returns
    calls,          \* every call issued to the service, in order
    reported        \* what main printed before exiting: usage or the fatalf error

vars == <<environ, i, pc, exitCode, projectID, topics, remaining, topicID, topic,
          j, dlqTopic, sessions, err, calls, reported>>

NoHandle == [project |-> <<>>, id |-> <<>>, call |-> 0]
\* the zero value of pubsub.PushConfig: an empty endpoint
NoPush == <<>>
\* Topic.String() of the pubsub client: the fully qualified name of a topic
TopicString(h) ==
    <<"p", "r", "o", "j", "e", "c", "t", "s", "/">> \o h.project
        \o <<"/", "t", "o", "p", "i", "c", "s", "/">> \o h.id

\* the nil *pubsub.DeadLetterPolicy
NoPolicy == [DeadLetterTopic |-> NoHandle, Name |-> <<>>, MaxDeliveryAttempts |-> 0]
Nil == [kind |-> "nil", args |-> <<>>, cause |-> "nil"]
NoTopics == [k \in {} |-> <<>>]

(***************************************************************************)
(* main, lines 159-170: the structural parse of one variable.              *)
(***************************************************************************)
Getenv(k) == IF k \in DOMAIN environ THEN environ[k] ELSE Unset

\* a variant of ParseTopics: the subscriptions of a repeated topic are appended
\* to those the map already holds
RECURSIVE ParseTopicsAppend(_, _)
ParseTopicsAppend(fields, acc) ==
    IF Len(fields) = 0
    THEN acc
    ELSE LET topicParts == Split(Head(fields), Colon)
             key == topicParts[1]
             next == [k \in (DOMAIN acc) \cup {key} |->
                        IF k = key
                        THEN (IF key \in DOMAIN acc THEN acc[key] ELSE <<>>)
                                \o SubSeq(topicParts, 2, Len(topicParts))
                        ELSE acc[k]]
         IN  ParseTopicsAppend(Tail(fields), next)

\* topics[topicParts[0]] = topicParts[1:], for parts[1:] in order
RECURSIVE ParseTopics(_, _)
ParseTopics(fields, acc) ==
    IF Len(fields) = 0
    THEN acc
    ELSE LET topicParts == Split(Head(fields), Colon)
             key == topicParts[1]
             next == [k \in (DOMAIN acc) \cup {key} |->
                        IF k = key THEN Tail1(topicParts) ELSE acc[k]]
         IN  ParseTopics(Tail(fields), next)

(***************************************************************************)
(* create, lines 64-73: the decomposition of one subscription token.       *)
(***************************************************************************)
\* a variant of subscriptions: the slice is taken at a fixed key of the map
\* instead of the key of the iteration
subscriptionsOfFixedKey == topics[CHOOSE k \in DOMAIN topics : TRUE]

subscriptions == topics[topicID]
subscriptionParts == Split(subscriptions[j], Plus)
\* a variant of subscriptionID: the whole token is taken as the identifier
subscriptionIDWholeToken == subscriptions[j]

subscriptionID == subscriptionParts[1]
pushEndpoint == ReplaceFirst(subscriptionParts[2], Pipe, Colon)
IsPush == Len(subscriptionParts) > 1
IsDlq == Len(subscriptionParts) = 3 /\ subscriptionParts[3] = DlqLit
\* a variant of dlqTopicID: the suffix is left out
dlqTopicIDNoSuffix == topicID

dlqTopicID == topicID \o DlqSuffix
dlqSubscriptionID == subscriptionID \o DlqSuffix

Init ==
    /\ environ \in [1..MaxEnv -> EnvValues \cup {Unset}]
    /\ \A k \in 2..MaxEnv : environ[k] \in LaterValues \cup {Unset}
    /\ i = 1
    /\ pc = "getenv"
    /\ exitCode = -1
    /\ projectID = <<>>
    /\ topics = NoTopics
    /\ remaining = {}
    /\ topicID = <<>>
    /\ topic = NoHandle
    /\ j = 0
    /\ dlqTopic = NoHandle
    /\ sessions = {}
    /\ err = Nil
    /\ calls = <<>>
    /\ reported = Nil

(***************************************************************************)
(* The records of the model: a call to the service, an error of create.    *)
(***************************************************************************)
\* env, site, key, token and pos tell where in the program the call was issued:
\* the index of the variable, the call site, the key of the range loop, the
\* subscription token being worked on and its index in the slice
Call(site, op, key, token, id, handle, endpoint, policy, res) ==
    [env |-> i, site |-> site, key |-> key, token |-> token,
     pos |-> IF site \in {"connect", "topic"} THEN 0 ELSE j,
     op |-> op, project |-> projectID, id |-> id,
     topic |-> handle, endpoint |-> endpoint, policy |-> policy, res |-> res]

\* fmt.Errorf at one of the return sites of create
Errorf(kind, args, cause) == [kind |-> kind, args |-> args, cause |-> cause]

\* a variant of Handle: the handle of a topic the pass created before is kept
\* and handed out again for the same identifier
HandleReused(id) ==
    LET before == {m \in 1..Len(calls) :
                      /\ calls[m].env = i
                      /\ calls[m].op = "CreateTopic"
                      /\ calls[m].id = id
                      /\ calls[m].res = "ok"}
    IN  IF before = {}
        THEN [project |-> projectID, id |-> id, call |-> Len(calls) + 1]
        ELSE [project |-> projectID, id |-> id,
              call |-> CHOOSE m \in before : \A w \in before : m <= w]

\* the handle a successful CreateTopic returns; call is the position of that
\* call in the log
Handle(id) == [project |-> projectID, id |-> id, call |-> Len(calls) + 1]

\* a variant of Failed: the error of a call is never looked at
FailedNever(res) == FALSE

\* a variant of Failed: an "already exists" answer is taken as success
FailedUnlessExists(res) == res \notin {"ok", "AlreadyExists"}

\* err != nil, the test after each call to the service
Failed(res) == res # "ok"

\* a variant of ReturnErr: the error is noted and the loop goes on
ReturnErrRetry(e) ==
    /\ err' = e
    /\ pc' = pc

\* return err: leave the loops of create
ReturnErr(e) ==
    /\ err' = e
    /\ pc' = "return"

\* a variant of NextSubscription: the subscription loop is left after its
\* first iteration
NextSubscriptionBreak ==
    /\ j' = j
    /\ pc' = IF remaining = {} THEN "return" ELSE "topic"
    /\ err' = IF remaining = {} THEN Nil ELSE err

\* the end of one iteration of the subscription loop (line 121): the next
\* subscription, else the next topic of the range loop, else return nil
NextSubscription ==
    IF j < Len(subscriptions)
    THEN /\ j' = j + 1
         /\ pc' = "sub"
         /\ err' = err
    ELSE /\ j' = j
         /\ pc' = IF remaining = {} THEN "return" ELSE "topic"
         /\ err' = IF remaining = {} THEN Nil ELSE err

(***************************************************************************)
(* main, lines 145-170: read PUBSUB_PROJECT<i> and parse it.               *)
(***************************************************************************)
\* a variant of Fatalf: the message is printed and main carries on
FatalfNoExit == [pc |-> "getenv", exitCode |-> exitCode]

\* fatalf, lines 41-44: print to stderr and os.Exit(1)
Fatalf == [pc |-> "exit", exitCode |-> 1]

\* a variant of TooFewParts: the test is off by one
TooFewPartsOffByOne(parts) == Len(parts) < 1

\* line 161: len(parts) < 2
TooFewParts(parts) == Len(parts) < 2

\* a variant of UnsetExit: the first variable is not told apart
UnsetExitZero(k) == 0

\* lines 149-157: the exit status when PUBSUB_PROJECT<k> is unset: usage and
\* os.Exit(1) for the first variable, else break and return from main
UnsetExit(k) == IF k = 1 THEN 1 ELSE 0

ReadEnv ==
    /\ pc = "getenv"
    /\ LET env == Getenv(i)
           parts == Split(env, Comma)
       IN  IF env = Unset
           THEN \* usage and exit 1 for the first variable, else break
                /\ pc' = "exit"
                /\ exitCode' = UnsetExit(i)
                /\ reported' = IF UnsetExit(i) = 1
                               THEN Errorf("Usage", <<>>, "nil")
                               ELSE reported
                /\ UNCHANGED <<projectID, topics, remaining>>
           ELSE IF TooFewParts(parts)
           THEN \* fatalf("%s: Expected at least 1 topic to be defined")
                /\ pc' = Fatalf.pc
                /\ exitCode' = Fatalf.exitCode
                /\ reported' = Errorf("MalformedSpec", <<env>>, "nil")
                /\ UNCHANGED <<projectID, topics, remaining>>
           ELSE /\ projectID' = parts[1]
                /\ topics' = ParseTopics(Tail1(parts), NoTopics)
                /\ remaining' = {}
                /\ pc' = "connect"
                /\ UNCHANGED <<exitCode, reported>>
    /\ UNCHANGED <<environ, i, topicID, topic, j, dlqTopic, sessions, err, calls>>

(***************************************************************************)
(* create, lines 49-53: pubsub.NewClient and the deferred Close.           *)
(***************************************************************************)
NewClient ==
    /\ pc = "connect"
    /\ \E res \in Results :
         /\ calls' = Append(calls, Call("connect", "NewClient", <<>>, <<>>, projectID, NoHandle,
                                        NoPush, NoPolicy, res))
         /\ IF ~Failed(res)
            THEN /\ sessions' = sessions \cup {i}
                 /\ remaining' = DOMAIN topics
                 /\ pc' = "topic"
                 /\ err' = Nil
            ELSE /\ ReturnErr(Errorf("BackendConnectError", <<projectID>>, res))
                 /\ UNCHANGED <<sessions, remaining>>
    /\ UNCHANGED <<environ, i, exitCode, projectID, topics, topicID, topic, j,
                   dlqTopic, reported>>

(***************************************************************************)
(* create, lines 57-62: the next key of the range over the map (Go leaves  *)
(* the order of a map range unspecified) and its CreateTopic.              *)
(***************************************************************************)
CreateTopic ==
    /\ pc = "topic"
    /\ \E key \in remaining, res \in Results :
         /\ topicID' = key
         /\ remaining' = remaining \ {key}
         /\ calls' = Append(calls, Call("topic", "CreateTopic", key, <<>>, key, NoHandle,
                                        NoPush, NoPolicy, res))
         /\ IF ~Failed(res)
            THEN /\ topic' = Handle(key)
                 /\ IF Len(topics[key]) > 0
                    THEN /\ j' = 1
                         /\ pc' = "sub"
                         /\ err' = err
                    ELSE /\ j' = 0
                         /\ pc' = IF remaining' = {} THEN "return" ELSE "topic"
                         /\ err' = IF remaining' = {} THEN Nil ELSE err
            ELSE /\ ReturnErr(Errorf("TopicCreateError", <<key, projectID>>, res))
                 /\ UNCHANGED <<topic, j>>
    /\ UNCHANGED <<environ, i, exitCode, projectID, topics, dlqTopic, sessions, reported>>

(***************************************************************************)
(* create, lines 73-80: the dead letter topic of a token marked dlq.       *)
(***************************************************************************)
CreateDlqTopic ==
    /\ pc = "sub"
    /\ IsPush /\ IsDlq
    /\ \E res \in Results :
         /\ calls' = Append(calls, Call("dlqTopic", "CreateTopic", topicID, subscriptions[j],
                                        dlqTopicID, NoHandle, NoPush, NoPolicy, res))
         /\ IF ~Failed(res)
            THEN /\ dlqTopic' = Handle(dlqTopicID)
                 /\ pc' = "dlqSub"
                 /\ err' = err
            ELSE /\ ReturnErr(Errorf("DLQTopicCreateError", <<topicID, projectID>>, res))
                 /\ UNCHANGED dlqTopic
    /\ UNCHANGED <<environ, i, exitCode, projectID, topics, remaining, topicID, topic,
                   j, sessions, reported>>

(***************************************************************************)
(* create, lines 82-94: the dead letter subscription.                      *)
(***************************************************************************)
CreateDlqSubscription ==
    /\ pc = "dlqSub"
    /\ \E res \in Results :
         /\ calls' = Append(calls, Call("dlqSub", "CreateSubscription", topicID,
                                        subscriptions[j], dlqSubscriptionID, dlqTopic,
                                        HttpPrefix \o pushEndpoint \o DeadSuffix,
                                        NoPolicy, res))
         /\ IF ~Failed(res)
            THEN /\ pc' = "primary"
                 /\ err' = err
            ELSE ReturnErr(Errorf("DLQSubscriptionCreateError",
                                  <<dlqTopicID, projectID>>, res))
    /\ UNCHANGED <<environ, i, exitCode, projectID, topics, remaining, topicID, topic,
                   j, dlqTopic, sessions, reported>>

(***************************************************************************)
(* create, lines 96-114: the push subscription, with the dead letter       *)
(* policy when the dead letter block ran.                                  *)
(***************************************************************************)
CreatePushSubscription ==
    /\ \/ pc = "sub" /\ IsPush /\ ~IsDlq
       \/ pc = "primary"
    /\ \E res \in Results :
         LET deadLetterPolicy ==
                 IF pc = "primary"
                 THEN [DeadLetterTopic |-> dlqTopic,
                       Name |-> TopicString(dlqTopic),
                       MaxDeliveryAttempts |-> MaxDeliveryAttempts]
                 ELSE NoPolicy
         IN  /\ calls' = Append(calls, Call("pushSub", "CreateSubscription", topicID,
                                            subscriptions[j], subscriptionID, topic,
                                            HttpPrefix \o pushEndpoint,
                                            deadLetterPolicy, res))
             /\ IF ~Failed(res)
                THEN NextSubscription
                ELSE /\ ReturnErr(Errorf("SubscriptionCreateError",
                                         <<subscriptionID, topicID, projectID, pushEndpoint>>,
                                         res))
                     /\ j' = j
    /\ UNCHANGED <<environ, i, exitCode, projectID, topics, remaining, topicID, topic,
                   dlqTopic, sessions, reported>>

(***************************************************************************)
(* create, lines 115-120: the subscription without push config.            *)
(***************************************************************************)
CreatePlainSubscription ==
    /\ pc = "sub"
    /\ ~IsPush
    /\ \E res \in Results :
         /\ calls' = Append(calls, Call("plainSub", "CreateSubscription", topicID,
                                        subscriptions[j], subscriptionID, topic,
                                        NoPush, NoPolicy, res))
         /\ IF ~Failed(res)
            THEN NextSubscription
            ELSE /\ ReturnErr(Errorf("SubscriptionCreateError",
                                     <<subscriptionID, topicID, projectID>>, res))
                 /\ j' = j
    /\ UNCHANGED <<environ, i, exitCode, projectID, topics, remaining, topicID, topic,
                   dlqTopic, sessions, reported>>

(***************************************************************************)
(* create returns: the deferred client.Close() runs (it was registered     *)
(* only if NewClient succeeded), then main, lines 173-176, either calls    *)
(* fatalf, which exits with status 1, or goes on with the next variable.   *)
(***************************************************************************)
\* a variant of Close: the client is left open
CloseNothing(open, k) == open

Close(open, k) == open \ {k}

\* a variant of AfterCreate: main goes on with the next variable after an error
AfterCreateContinue(e) == [pc |-> "getenv", exitCode |-> exitCode, i |-> i + 1]

\* what main does with the error of create: the next pc, exit code and index
AfterCreate(e) ==
    IF e # Nil
    THEN [pc |-> Fatalf.pc, exitCode |-> Fatalf.exitCode, i |-> i]
    ELSE [pc |-> "getenv", exitCode |-> exitCode, i |-> i + 1]

Return ==
    /\ pc = "return"
    /\ sessions' = Close(sessions, i)
    /\ LET next == AfterCreate(err)
       IN  /\ pc' = next.pc
           /\ exitCode' = next.exitCode
           /\ i' = next.i
    /\ reported' = IF err # Nil THEN err ELSE reported
    /\ UNCHANGED <<environ, projectID, topics, remaining, topicID, topic, j, dlqTopic,
                   err, calls>>

Next ==
    \/ ReadEnv
    \/ NewClient
    \/ CreateTopic
    \/ CreateDlqTopic
    \/ CreateDlqSubscription
    \/ CreatePushSubscription
    \/ CreatePlainSubscription
    \/ Return

Spec == Init /\ [][Next]_vars

(***************************************************************************)
(* A service that starts empty and rejects the creation of a name that     *)
(* exists: a topic or subscription exists in a project once a call created *)
(* it, in this pass or in the pass of an earlier variable with the same    *)
(* project.  Any call may still fail for another reason.                   *)
(***************************************************************************)
Exists(c) ==
    \E m \in 1..Len(calls) :
        /\ calls[m].op = c.op
        /\ calls[m].project = c.project
        /\ calls[m].id = c.id
        /\ calls[m].res = "ok"

StrictAnswer ==
    calls' # calls =>
        LET c == calls'[Len(calls')]
        IN  (c.op \in {"CreateTopic", "CreateSubscription"} /\ Exists(c))
                => c.res = "AlreadyExists"

NextStrict ==
    \/ ReadEnv /\ StrictAnswer
    \/ NewClient /\ StrictAnswer
    \/ CreateTopic /\ StrictAnswer
    \/ CreateDlqTopic /\ StrictAnswer
    \/ CreateDlqSubscription /\ StrictAnswer
    \/ CreatePushSubscription /\ StrictAnswer
    \/ CreatePlainSubscription /\ StrictAnswer
    \/ Return /\ StrictAnswer

SpecStrict == Init /\ [][NextStrict]_vars

(***************************************************************************)
(* What the properties below read off the call log and the environment.    *)
(***************************************************************************)
CallIdx == 1..Len(calls)
Ok(n) == calls[n].res = "ok"
NumOf(s, c) == Cardinality({k \in 1..Len(s) : s[k] = c})

\* the last n characters of s
Suffix(s, n) == SubSeq(s, Len(s) - n + 1, Len(s))

\* a token with exactly three '+' segments whose third segment is "dlq"
DlqMarked(tok) ==
    /\ NumOf(tok, Plus) = 2
    /\ Len(tok) >= 4
    /\ Suffix(tok, 4) = <<Plus>> \o DlqLit

\* the call creates the subscription named by a token itself, not its
\* dead letter subscription
IsPrimary(c) == c.op = "CreateSubscription" /\ c.site # "dlqSub"

\* the error kind create returns for a failure at a call site
KindAt(site) ==
    CASE site = "connect" -> "BackendConnectError"
      [] site = "topic" -> "TopicCreateError"
      [] site = "dlqTopic" -> "DLQTopicCreateError"
      [] site = "dlqSub" -> "DLQSubscriptionCreateError"
      [] OTHER -> "SubscriptionCreateError"

\* the variable has a separator, hence a project and at least one topic field
HasTopicField(s) == NumOf(s, Comma) >= 1

\* C1: the primary subscription of a token marked dlq (topic T, subscription
\* S) is created only right after createTopic(T-dlq) and then
\* createSubscription(S-dlq) both succeeded in the same pass, and its dead
\* letter policy names the topic that createTopic call returned.
C1_DeadLetterFirst ==
    \A n \in CallIdx :
        LET c == calls[n]
        IN  (IsPrimary(c) /\ DlqMarked(c.token)) =>
                /\ n > 2
                /\ calls[n - 2].op = "CreateTopic"
                /\ calls[n - 2].id = c.key \o DlqSuffix
                /\ calls[n - 2].env = c.env
                /\ Ok(n - 2)
                /\ calls[n - 1].op = "CreateSubscription"
                /\ calls[n - 1].id = c.id \o DlqSuffix
                /\ calls[n - 1].env = c.env
                /\ Ok(n - 1)
                /\ c.policy.DeadLetterTopic.id = c.key \o DlqSuffix
                /\ c.policy.DeadLetterTopic.call = n - 2

C1_Witness ==
    \E n \in CallIdx :
        /\ IsPrimary(calls[n])
        /\ DlqMarked(calls[n].token)
        /\ Ok(n)
        /\ calls[n].token = TokDlq

\* C2: in one pass the first failing call is the last call of the pass: the
\* calls before it succeeded, none follows it, no subscription of a topic
\* whose creation failed is attempted, create returns the error of that
\* call, and the service is only ever asked to create, never to delete.
C2_FirstFailureEndsPass ==
    /\ \A n \in CallIdx : calls[n].op \in {"NewClient", "CreateTopic", "CreateSubscription"}
    /\ \A n \in CallIdx :
        ~Ok(n) =>
            /\ \A m \in CallIdx : (m < n /\ calls[m].env = calls[n].env) => Ok(m)
            /\ \A m \in CallIdx : m > n => calls[m].env # calls[n].env
            /\ calls[n].site = "topic" =>
                 \A m \in CallIdx :
                    (calls[m].env = calls[n].env /\ calls[m].op = "CreateSubscription")
                        => calls[m].key # calls[n].id
            /\ calls[n].env = i =>
                 /\ pc \in {"return", "exit"}
                 /\ err.cause = calls[n].res
                 /\ err.kind = KindAt(calls[n].site)

C2_Witness ==
    /\ pc = "exit"
    /\ \E n \in CallIdx :
        /\ ~Ok(n)
        /\ calls[n].site = "pushSub"
        /\ \E m \in 1..(n - 1) : calls[m].op = "CreateSubscription" /\ Ok(m)

\* C3 as stated: when a pass failed, the project of the next variable, if it
\* is set and has a topic field, is attempted all the same.
C3_NextProjectStillAttempted ==
    pc = "exit" =>
        \A k \in 1..(MaxEnv - 1) :
            ( /\ \E n \in CallIdx : calls[n].env = k /\ ~Ok(n)
              /\ HasTopicField(environ[k + 1]) )
            => \E m \in CallIdx : calls[m].env = k + 1

\* C3 as amended: a failure in one project's pass ends the batch.  The process
\* exits with code 1, no project of a later variable is attempted, and the
\* passes of the earlier variables had all succeeded.
C3_FailureEndsBatch ==
    \A n \in CallIdx :
        ~Ok(n) =>
            /\ i = calls[n].env
            /\ \A m \in CallIdx : calls[m].env <= calls[n].env
            /\ \A m \in CallIdx : calls[m].env < calls[n].env => Ok(m)
            /\ exitCode \in {-1, 1}
            /\ pc = "exit" => exitCode = 1

C3_Witness ==
    /\ pc = "exit"
    /\ HasTopicField(environ[2])
    /\ \E n \in CallIdx : calls[n].env = 1 /\ ~Ok(n) /\ calls[n].site \in {"connect", "topic"}

\* C4: once a parse error or the error of a pass is reported the process has
\* exited with code 1; no call was issued for a later variable, none for the
\* variable of a parse error, and the failing call of a pass error is the
\* last call ever issued.
C4_ErrorIsFatal ==
    reported # Nil =>
        /\ pc = "exit"
        /\ exitCode = 1
        /\ \A n \in CallIdx : calls[n].env <= i
        /\ reported.kind = "MalformedSpec" => \A n \in CallIdx : calls[n].env < i
        /\ reported.kind \notin {"MalformedSpec", "Usage"} =>
             /\ calls # <<>>
             /\ ~Ok(Len(calls))
             /\ calls[Len(calls)].env = i
             /\ reported.cause = calls[Len(calls)].res

C4_Witness ==
    /\ reported.kind = "TopicCreateError"
    /\ i = 1
    /\ HasTopicField(environ[2])
    /\ HasTopicField(environ[3])

\* the topic identifiers of the topic fields of variable k, in field order
FieldTopics(k) ==
    LET fields == Tail1(Split(environ[k], Comma))
    IN  [a \in 1..Len(fields) |-> Split(fields[a], Colon)[1]]

\* the subscription tokens variable k gives topic key: those of its last field
\* with that topic identifier
TokensOf(k, key) ==
    LET fields == Tail1(Split(environ[k], Comma))
        last == CHOOSE a \in 1..Len(fields) :
                    /\ FieldTopics(k)[a] = key
                    /\ \A b \in (a + 1)..Len(fields) : FieldTopics(k)[b] # key
    IN  Tail1(Split(fields[last], Colon))

\* C5 as stated: in a pass createTopic for the topic of an earlier field
\* precedes createTopic for the topic of a later field.
C5_TopicsInFieldOrder ==
    \A n, m \in CallIdx :
        ( /\ n < m
          /\ calls[n].site = "topic"
          /\ calls[m].site = "topic"
          /\ calls[n].env = calls[m].env
          /\ calls[n].id # calls[m].id )
        => \A a, b \in DOMAIN FieldTopics(calls[n].env) :
              ( /\ FieldTopics(calls[n].env)[a] = calls[n].id
                /\ FieldTopics(calls[n].env)[b] = calls[m].id )
              => a < b

\* C5 as amended: in a pass the topics are created one at a time, each topic
\* identifier of the variable at most once, in no fixed order; the calls for
\* the tokens of a topic follow the successful createTopic of that topic,
\* before the next createTopic, one token after the other in token order.
C5_OneTopicAtATime ==
    \A n \in CallIdx :
        LET c == calls[n]
            topicCalls == {m \in 1..(n - 1) : calls[m].env = c.env /\ calls[m].site = "topic"}
        IN  /\ c.site = "topic" =>
                /\ \E a \in DOMAIN FieldTopics(c.env) : FieldTopics(c.env)[a] = c.id
                /\ \A m \in topicCalls : calls[m].id # c.id
            /\ c.site \notin {"connect", "topic"} =>
                /\ topicCalls # {}
                /\ LET t == CHOOSE m \in topicCalls : \A w \in topicCalls : w <= m
                   IN  calls[t].id = c.key /\ Ok(t)
                /\ c.pos \in 1..Len(TokensOf(c.env, c.key))
                /\ c.token = TokensOf(c.env, c.key)[c.pos]
                /\ \/ calls[n - 1].site = "topic" /\ c.pos = 1
                   \/ calls[n - 1].pos = c.pos /\ ~IsPrimary(calls[n - 1])
                   \/ calls[n - 1].pos = c.pos - 1 /\ IsPrimary(calls[n - 1])

C5_Witness ==
    /\ environ[1] = EnvOf(<<"q">>, << Field(<<"t">>, <<TokPlainS>>), Field(<<"u">>, <<TokDlqR>>) >>)
    /\ \E n, m \in CallIdx :
        /\ n < m
        /\ calls[n].env = 1 /\ calls[n].site = "topic" /\ calls[n].id = <<"u">>
        /\ calls[m].env = 1 /\ calls[m].site = "topic" /\ calls[m].id = <<"t">>
    /\ \E n \in CallIdx : calls[n].env = 1 /\ calls[n].site = "plainSub"

\* a token with three '+' segments whose third segment is not "dlq"
ThirdNotDlq(tok) == NumOf(tok, Plus) = 2 /\ ~DlqMarked(tok)

\* C6: no subscription is created for a token with three '+' segments whose
\* third segment is not "dlq", and a pass over such a token does not end
\* without error.
C6_ThirdSegmentRejected ==
    \A n \in CallIdx :
        ThirdNotDlq(calls[n].token) =>
            /\ calls[n].op # "CreateSubscription"
            /\ ~(calls[n].env < i)

\* the token has an empty segment right after its first '+'
NoEndpoint(tok) ==
    LET k == Index(tok, Plus)
    IN  k > 0 /\ (k = Len(tok) \/ tok[k + 1] = Plus)

\* C7: a dead letter topic, a dead letter subscription or a dead letter policy
\* is created only for a token marked dlq in its third segment that has a
\* non-empty push endpoint segment.
C7_NoDeadLetterWithoutEndpoint ==
    \A n \in CallIdx :
        (calls[n].site \in {"dlqTopic", "dlqSub"} \/ calls[n].policy # NoPolicy)
            => DlqMarked(calls[n].token) /\ ~NoEndpoint(calls[n].token)

\* C8: a variable that is set but has no topic field is reported as malformed
\* with exit code 1, and no call, neither connect nor create, is issued for it.
C8_NoTopicFieldIsMalformed ==
    \A k \in 1..MaxEnv :
        (environ[k] # Unset /\ ~HasTopicField(environ[k])) =>
            /\ \A n \in CallIdx : calls[n].env # k
            /\ i <= k
            /\ (i = k /\ pc # "getenv") =>
                 /\ pc = "exit"
                 /\ exitCode = 1
                 /\ reported.kind = "MalformedSpec"

C8_Witness ==
    /\ pc = "exit"
    /\ i = 2
    /\ reported.kind = "MalformedSpec"
    /\ environ[2] = <<"p">>
    /\ calls # <<>>

\* the index of the first variable that is unset
Gap ==
    CHOOSE k \in 1..(MaxEnv + 1) :
        /\ Getenv(k) = Unset
        /\ \A m \in 1..(k - 1) : Getenv(m) # Unset

\* C9: the variables are consumed in increasing index order up to the first
\* unset one.  If the first variable is unset the process exits with code 1
\* after no call at all; if the first unset variable has index k > 1 and no
\* error occurred, the process exits with code 0 after the passes of exactly
\* the variables 1..k-1, and no variable after k is ever looked at.
C9_StopsAtFirstGap ==
    /\ i <= Gap
    /\ \A n \in CallIdx : calls[n].env < Gap
    /\ \A n, m \in CallIdx : n < m => calls[n].env <= calls[m].env
    /\ Gap = 1 =>
         /\ calls = <<>>
         /\ pc = "exit" => exitCode = 1
    /\ (Gap > 1 /\ pc = "exit" /\ reported = Nil) =>
         /\ exitCode = 0
         /\ i = Gap
         /\ \A k \in 1..(Gap - 1) :
              \E n \in CallIdx : calls[n].env = k /\ calls[n].site = "connect"
         /\ \A n \in CallIdx : Ok(n)

C9_Witness ==
    /\ pc = "exit"
    /\ exitCode = 0
    /\ Gap = 2
    /\ HasTopicField(environ[3])

\* C10: a client is open only during the pass that opened it: at most one is
\* open at any time, none while main is between two passes, and none once the
\* process has exited, whether the pass succeeded or was aborted.
C10_SessionsReleased ==
    /\ Cardinality(sessions) <= 1
    /\ sessions \subseteq {i}
    /\ pc \in {"getenv", "connect", "exit"} => sessions = {}

C10_Witness ==
    /\ pc = "exit"
    /\ exitCode = 1
    /\ sessions = {}
    /\ i = 2
    /\ reported.kind = "DLQSubscriptionCreateError"
    /\ \E n \in CallIdx : calls[n].env = 2 /\ calls[n].site = "connect" /\ Ok(n)

\* the part of a token after its first '+'
AfterFirstPlus(tok) == SubSeq(tok, Index(tok, Plus) + 1, Len(tok))

\* ep is "http://" followed by seg, where the first '|' of seg, and only that
\* one, reads ':'
IsHttpOf(ep, seg) ==
    /\ Len(ep) = Len(HttpPrefix) + Len(seg)
    /\ SubSeq(ep, 1, Len(HttpPrefix)) = HttpPrefix
    /\ \A k \in 1..Len(seg) :
        ep[Len(HttpPrefix) + k] =
            IF seg[k] = Pipe /\ \A m \in 1..(k - 1) : seg[m] # Pipe
            THEN Colon
            ELSE seg[k]

\* C11: a token of one '+' segment creates a subscription named by the token
\* with no push config and no dead letter policy; a token of two segments
\* creates a subscription named by segment 1 whose push endpoint is "http://"
\* followed by segment 2 with only its first '|' replaced by ':', and no dead
\* letter policy.
C11_DispatchOnSegments ==
    \A n \in CallIdx :
        LET c == calls[n]
        IN  /\ (c.op = "CreateSubscription" /\ NumOf(c.token, Plus) = 0) =>
                /\ c.id = c.token
                /\ c.endpoint = NoPush
                /\ c.policy = NoPolicy
            /\ (c.op = "CreateSubscription" /\ NumOf(c.token, Plus) = 1) =>
                /\ c.id = SubSeq(c.token, 1, Index(c.token, Plus) - 1)
                /\ IsHttpOf(c.endpoint, AfterFirstPlus(c.token))
                /\ c.policy = NoPolicy

C11_Witness ==
    \E n, m \in CallIdx :
        /\ calls[n].token = TokPush2 /\ Ok(n)
        /\ calls[n].id = <<"r">>
        /\ calls[n].endpoint = HttpPrefix \o <<"h", ":", "8", "|", "9">>
        /\ calls[m].token = TokPlainS /\ Ok(m)
        /\ calls[m].endpoint = <<>>

\* the '+' segments of a token
Segments(tok) == Split(tok, Plus)

\* C12: for a token S+E+dlq on topic T the pass creates a topic T-dlq, then a
\* subscription S-dlq bound to T-dlq, not to T, with push endpoint
\* http://<E normalized>/dead and no policy, then the subscription S bound to T
\* with push endpoint http://<E normalized> and a dead letter policy naming
\* projects/<project>/topics/T-dlq with 5 delivery attempts.  A subscription
\* created for a token carries a dead letter policy exactly if the token is
\* marked dlq.
C12_DeadLetterWiring ==
    \A n \in CallIdx :
        LET c == calls[n]
        IN  /\ (IsPrimary(c) /\ DlqMarked(c.token)) =>
                LET S == Segments(c.token)[1]
                    E == Segments(c.token)[2]
                    T == c.key
                    dt == calls[n - 2]
                    ds == calls[n - 1]
                IN  /\ dt.op = "CreateTopic"
                    /\ dt.id = T \o DlqSuffix
                    /\ dt.project = c.project
                    /\ ds.op = "CreateSubscription"
                    /\ ds.id = S \o DlqSuffix
                    /\ ds.topic.id = T \o DlqSuffix
                    /\ ds.topic.call = n - 2
                    /\ ds.endpoint = c.endpoint \o DeadSuffix
                    /\ ds.policy = NoPolicy
                    /\ c.id = S
                    /\ c.topic.id = T
                    /\ calls[c.topic.call].site = "topic"
                    /\ calls[c.topic.call].id = T
                    /\ IsHttpOf(c.endpoint, E)
                    /\ c.policy.Name =
                         <<"p", "r", "o", "j", "e", "c", "t", "s", "/">> \o c.project
                            \o <<"/", "t", "o", "p", "i", "c", "s", "/">> \o T \o DlqSuffix
                    /\ c.policy.MaxDeliveryAttempts = 5
            /\ IsPrimary(c) => (c.policy # NoPolicy <=> DlqMarked(c.token))
            /\ c.site = "dlqSub" => c.policy = NoPolicy

C12_Witness ==
    \E n \in CallIdx :
        /\ IsPrimary(calls[n])
        /\ Ok(n)
        /\ calls[n].token = TokDlq
        /\ calls[n].endpoint = HttpPrefix \o <<"h", ":", "8">>
        /\ calls[n - 1].endpoint = HttpPrefix \o <<"h", ":", "8">> \o DeadSuffix
        /\ calls[n - 1].id = <<"s", "-", "d", "l", "q">>
        /\ calls[n - 2].id = <<"t", "-", "d", "l", "q">>

\* the topic fields of variable k
TopicFields(k) == Tail1(Split(environ[k], Comma))

\* the pass of variable k has returned without error
PassDone(k) == k < i \/ (k = i /\ pc = "return" /\ err = Nil)

\* the calls of the pass of variable k that satisfy P
CallsOf(k) == {n \in CallIdx : calls[n].env = k}

\* C13: when a topic identifier appears in several topic fields of a variable
\* the pass issues one createTopic call for it, not one per field, and creates
\* the subscription tokens of the last such field only: a token that only an
\* earlier field gives that topic never shows up in a call.
C13_DuplicateTopicOverwrites ==
    \A k \in 1..MaxEnv :
        \A a \in DOMAIN FieldTopics(k) :
            LET T == FieldTopics(k)[a]
                isLast == \A b \in (a + 1)..Len(TopicFields(k)) : FieldTopics(k)[b] # T
                lastToks == TokensOf(k, T)
                myToks == Tail1(Split(TopicFields(k)[a], Colon))
                creates(c) == c.op = "CreateTopic" /\ c.id = T
            IN  /\ Cardinality({cn \in CallsOf(k) : creates(calls[cn])}) <= 1
                /\ PassDone(k) => Cardinality({cn \in CallsOf(k) : creates(calls[cn])}) = 1
                /\ PassDone(k) =>
                     \A p \in 1..Len(lastToks) :
                        LET primaryAt(c) == IsPrimary(c) /\ c.key = T /\ c.pos = p
                                            /\ c.token = lastToks[p]
                        IN  Cardinality({cn \in CallsOf(k) : primaryAt(calls[cn])}) = 1
                /\ ~isLast =>
                     \A p \in 1..Len(myToks) :
                        (\A q \in 1..Len(lastToks) : lastToks[q] # myToks[p]) =>
                            LET forToken(c) == c.key = T /\ c.token = myToks[p]
                            IN  {cn \in CallsOf(k) : forToken(calls[cn])} = {}

C13_Witness ==
    /\ environ[1] = EnvOf(<<"q">>, << Field(<<"t">>, <<TokPlainS>>), Field(<<"t">>, <<TokPlainR>>) >>)
    /\ i = 2
    /\ \E n \in CallIdx : calls[n].env = 1 /\ calls[n].id = <<"r">> /\ Ok(n)

\* C14: every token marked dlq gets its own createTopic(T-dlq) and
\* createSubscription(S-dlq) call, also when an earlier token of the same
\* topic has created T-dlq already, and the dead letter subscription and the
\* dead letter policy of the token use the handle its own createTopic call
\* returned, never the one of another token.
C14_DeadLetterPerToken ==
    \A n \in CallIdx :
        LET c == calls[n]
            sameToken(m) == /\ calls[m].env = c.env
                            /\ calls[m].key = c.key
                            /\ calls[m].pos = c.pos
            ownTopic == {m \in 1..(n - 1) : sameToken(m) /\ calls[m].site = "dlqTopic"}
            ownSub == {m \in 1..(n - 1) : sameToken(m) /\ calls[m].site = "dlqSub"}
        IN  /\ c.site = "dlqSub" =>
                /\ Cardinality(ownTopic) = 1
                /\ c.topic.call \in ownTopic
                /\ Ok(c.topic.call)
            /\ (IsPrimary(c) /\ DlqMarked(c.token)) =>
                /\ Cardinality(ownTopic) = 1
                /\ Cardinality(ownSub) = 1
                /\ c.policy.DeadLetterTopic.call \in ownTopic
                /\ \A m \in ownSub : calls[m].topic.call \in ownTopic

C14_Witness ==
    \E a, b, n \in CallIdx :
        /\ a < b /\ b < n
        /\ calls[a].env = calls[n].env /\ calls[a].site = "dlqTopic" /\ Ok(a)
        /\ calls[a].pos = 1
        /\ calls[b].env = calls[n].env /\ calls[b].site = "dlqTopic" /\ Ok(b)
        /\ calls[b].pos = 2
        /\ calls[a].id = calls[b].id
        /\ IsPrimary(calls[n]) /\ calls[n].pos = 2 /\ Ok(n)
        /\ calls[n].policy.DeadLetterTopic.call = b

\* well-formed descriptors: a project identifier and topic fields with distinct
\* topic identifiers, each with its tokens; a token is its '+' segments
\* <<id>>, <<id, endpoint>> or <<id, endpoint, "dlq">>
WellFormed ==
    LET S == << <<"s">> >>
        SPush == << <<"s">>, <<"h", "|", "8">> >>
        RPush == << <<"r">>, <<"h", "|", "8", "|", "9">> >>
        SDlq == << <<"s">>, <<"h", "|", "8">>, DlqLit >>
        RDlq == << <<"r">>, <<"h">>, DlqLit >>
        T(toks) == [topic |-> <<"t">>, toks |-> toks]
        U(toks) == [topic |-> <<"u">>, toks |-> toks]
    IN  { [proj |-> <<"p">>, fields |-> << T(<<>>) >>],
          [proj |-> <<"p">>, fields |-> << T(<<S>>) >>],
          [proj |-> <<"p">>, fields |-> << T(<<SPush>>) >>],
          [proj |-> <<"p">>, fields |-> << T(<<RPush>>) >>],
          [proj |-> <<"p">>, fields |-> << T(<<SDlq>>) >>],
          [proj |-> <<"q">>, fields |-> << T(<<S, RPush>>) >>],
          [proj |-> <<"q">>, fields |-> << T(<<SDlq, RDlq>>) >>],
          [proj |-> <<"q">>, fields |-> << T(<<RDlq, S>>) >>],
          [proj |-> <<"q">>, fields |-> << T(<<>>), U(<<>>) >>],
          [proj |-> <<"q">>, fields |-> << T(<<S>>), U(<<RDlq>>) >>] }

\* the environment string of a descriptor
Serialize(d) ==
    EnvOf(d.proj,
          [a \in 1..Len(d.fields) |->
              Field(d.fields[a].topic,
                    [p \in 1..Len(d.fields[a].toks) |-> Tok(d.fields[a].toks[p])])])

\* C15: for a well-formed environment string the identifiers the service
\* receives are those written into the string: the project of every call, the
\* topic identifier of every createTopic of the range loop, and for the token
\* at position p of a topic the subscription identifier of its call, in token
\* order; the dead letter names are those identifiers followed by "-dlq", and
\* an endpoint is the endpoint segment with its first '|' replaced by ':'.
C15_IdentifiersPreserved ==
    \A k \in 1..MaxEnv :
        \A d \in WellFormed :
            environ[k] = Serialize(d) =>
                \A n \in CallIdx :
                    LET c == calls[n]
                    IN  c.env = k =>
                        /\ c.project = d.proj
                        /\ c.site = "connect" => c.id = d.proj
                        /\ c.site = "topic" =>
                             /\ \E a \in 1..Len(d.fields) : d.fields[a].topic = c.id
                             /\ c.key = c.id
                        /\ c.site \notin {"connect", "topic"} =>
                             \E a \in 1..Len(d.fields) :
                                /\ d.fields[a].topic = c.key
                                /\ c.pos \in 1..Len(d.fields[a].toks)
                                /\ LET segs == d.fields[a].toks[c.pos]
                                   IN  /\ IsPrimary(c) => c.id = segs[1] /\ c.topic.id = c.key
                                       /\ c.site = "dlqSub" => c.id = segs[1] \o DlqSuffix
                                       /\ c.site = "dlqTopic" => c.id = c.key \o DlqSuffix
                                       /\ c.site = "pushSub" => IsHttpOf(c.endpoint, segs[2])
                                       /\ c.site = "plainSub" => c.endpoint = NoPush
                                /\ \A m \in 1..(n - 1) :
                                     (calls[m].env = k /\ calls[m].key = c.key)
                                        => calls[m].pos <= c.pos

C15_Witness ==
    /\ \E d \in WellFormed :
        /\ Len(d.fields) = 2
        /\ environ[1] = Serialize(d)
    /\ PassDone(1)
    /\ \E n \in CallIdx : calls[n].env = 1 /\ calls[n].site = "pushSub" /\ calls[n].id = <<"r">>
    /\ \E n \in CallIdx : calls[n].env = 1 /\ calls[n].site = "plainSub" /\ calls[n].id = <<"s">>

\* x is one of the identifiers the error message of create is formatted with
InError(x) == \E a \in 1..Len(err.args) : err.args[a] = x

\* C16: the error create returns names the step that failed and carries the
\* cause of the service unchanged, the project, the topic identifier for a
\* topic or subscription step, the subscription identifier for every
\* subscription step, the dead letter one included, and the push endpoint for
\* a push subscription.
C16_ErrorsCarryIdentifiers ==
    (pc \in {"return", "exit"} /\ err # Nil) =>
        LET c == calls[Len(calls)]
        IN  /\ err.kind = KindAt(c.site)
            /\ err.cause = c.res
            /\ InError(c.project)
            /\ c.site \in {"topic", "dlqTopic"} => InError(c.key)
            /\ c.op = "CreateSubscription" =>
                 /\ InError(c.topic.id)
                 /\ InError(c.id)
            /\ c.endpoint # NoPush =>
                 \/ InError(c.endpoint)
                 \/ InError(SubSeq(c.endpoint, Len(HttpPrefix) + 1, Len(c.endpoint)))
                 \/ InError(SubSeq(c.endpoint, Len(HttpPrefix) + 1,
                                   Len(c.endpoint) - Len(DeadSuffix)))

\* the tokens the pass of variable k works on: topic and position
TokenSlots(k) ==
    UNION { { <<FieldTopics(k)[a], p>> : p \in 1..Len(TokensOf(k, FieldTopics(k)[a])) } :
              a \in DOMAIN FieldTopics(k) }

DlqSlots(k) == { s \in TokenSlots(k) : DlqMarked(TokensOf(k, s[1])[s[2]]) }

DistinctTopics(k) == { FieldTopics(k)[a] : a \in DOMAIN FieldTopics(k) }

IsCreation(c) == c.op \in {"CreateTopic", "CreateSubscription"}

\* no call of a pass is issued twice, and the pass of a variable with T
\* distinct topics, S tokens and D tokens marked dlq issues at most
\* T + S + 2D creation calls
BoundedWork ==
    /\ \A n, m \in CallIdx :
        ( /\ n # m
          /\ calls[n].env = calls[m].env
          /\ calls[n].site = calls[m].site
          /\ calls[n].key = calls[m].key )
        => calls[n].pos # calls[m].pos
    /\ \A k \in 1..MaxEnv :
        Cardinality({cn \in CallsOf(k) : IsCreation(calls[cn])})
            <= Cardinality(DistinctTopics(k)) + Cardinality(TokenSlots(k))
                 + 2 * Cardinality(DlqSlots(k))

\* main is between two passes, or has exited
Idle == pc \in {"getenv", "exit"}

\* a step of a running pass issues exactly one call, or is the return of create
PassStep ==
    ~Idle => \/ calls' = Append(calls, calls'[Len(calls')]) /\ ~Idle'
             \/ calls' = calls /\ Idle'

\* C17: no retries and bounded work: no call of a pass is issued twice and a
\* pass issues at most T + S + 2D creation calls; a running pass can always
\* take a step, and each of its steps issues one more call or ends the pass,
\* so every pass ends.
C17_BoundedPass ==
    /\ []BoundedWork
    /\ [](~Idle => ENABLED Next)
    /\ [][PassStep]_vars

C17_Witness ==
    /\ PassDone(1)
    /\ Cardinality(DlqSlots(1)) = 2
    /\ Cardinality({cn \in CallsOf(1) : IsCreation(calls[cn])}) = 7

\* C18: create returns nil exactly if the connect and every creation call of
\* the pass succeeded, and the calls of such a pass are exactly: the connect,
\* one createTopic per distinct topic identifier, also for a topic without
\* tokens, one createSubscription per token, bound to the handle of its own
\* topic, and one dead letter createTopic and createSubscription per token
\* marked dlq.
C18_SuccessCreatesExactly ==
    /\ pc = "return" => (err = Nil <=> \A n \in CallIdx : calls[n].env = i => Ok(n))
    /\ \A k \in 1..MaxEnv :
        PassDone(k) =>
            LET connects(c) == c.site = "connect"
            IN  /\ \A n \in CallsOf(k) : Ok(n)
                /\ Cardinality({cn \in CallsOf(k) : connects(calls[cn])}) = 1
                /\ \A T \in DistinctTopics(k) :
                     LET creates(c) == c.site = "topic" /\ c.id = T
                     IN  Cardinality({cn \in CallsOf(k) : creates(calls[cn])}) = 1
                /\ \A s \in TokenSlots(k) :
                     LET at(c) == c.key = s[1] /\ c.pos = s[2]
                         primary(c) == at(c) /\ IsPrimary(c)
                         dlqT(c) == at(c) /\ c.site = "dlqTopic"
                         dlqS(c) == at(c) /\ c.site = "dlqSub"
                         dlq == IF s \in DlqSlots(k) THEN 1 ELSE 0
                     IN  /\ Cardinality({cn \in CallsOf(k) : primary(calls[cn])}) = 1
                         /\ \A n \in {cn \in CallsOf(k) : primary(calls[cn])} :
                              /\ calls[n].topic.id = s[1]
                              /\ calls[calls[n].topic.call].site = "topic"
                              /\ calls[calls[n].topic.call].env = k
                         /\ Cardinality({cn \in CallsOf(k) : dlqT(calls[cn])}) = dlq
                         /\ Cardinality({cn \in CallsOf(k) : dlqS(calls[cn])}) = dlq
                /\ Cardinality(CallsOf(k))
                     = 1 + Cardinality(DistinctTopics(k)) + Cardinality(TokenSlots(k))
                         + 2 * Cardinality(DlqSlots(k))

C18_Witness ==
    /\ environ[1] = EnvOf(<<"q">>, << Field(<<"t">>, <<>>), Field(<<"u">>, <<>>) >>)
    /\ environ[2] = EnvOf(<<"q">>, << Field(<<"t">>, <<TokPlainS>>), Field(<<"u">>, <<TokDlqR>>) >>)
    /\ PassDone(1)
    /\ PassDone(2)
    /\ Len(calls) = 10

\* the pass of variable k issued all its calls and all of them succeeded
FullyProvisioned(k) ==
    /\ \A n \in CallsOf(k) : Ok(n)
    /\ Cardinality(CallsOf(k))
             = 1 + Cardinality(DistinctTopics(k)) + Cardinality(TokenSlots(k))
                 + 2 * Cardinality(DlqSlots(k))

\* C19: parsing and provisioning alternate: when main reads variable i the
\* passes of the variables 1..i-1 have all been completed without error; so a
\* malformed variable at an index i > 1 ends the process with exit code 1
\* after the projects of the variables before it were fully provisioned, and
\* no call is issued for variable i or a later one.
C19_ParseAfterPreviousPass ==
    /\ \A k \in 1..(i - 1) : FullyProvisioned(k)
    /\ \A n \in CallIdx : calls[n].env <= i
    /\ (reported.kind = "MalformedSpec" /\ i > 1) =>
         /\ pc = "exit"
         /\ exitCode = 1
         /\ calls # <<>>
         /\ \A n \in CallIdx : calls[n].env < i
         /\ calls[Len(calls)].env = i - 1

C19_Witness ==
    /\ reported.kind = "MalformedSpec"
    /\ i = 3
    /\ \E n \in CallIdx : calls[n].env = 1 /\ calls[n].site = "pushSub"
    /\ \E n \in CallIdx : calls[n].env = 2 /\ calls[n].site = "pushSub"

\* C20: with a service that rejects the creation of an existing name, the
\* pass of a variable whose topic T has two or more tokens marked dlq never
\* returns without error: once a token has created T-dlq, the createTopic of
\* T-dlq for a later token is answered "already exists", it is the last call,
\* create returns the dead letter topic error, and neither the dead letter
\* subscription nor the primary subscription of that token is created.
C20_TwoDlqTokensNeverComplete ==
    \A k \in 1..MaxEnv :
        \A T \in DistinctTopics(k) :
            Cardinality({s \in DlqSlots(k) : s[1] = T}) >= 2 =>
                /\ ~PassDone(k)
                /\ \A n \in CallIdx :
                    ( /\ calls[n].env = k
                      /\ calls[n].site = "dlqTopic"
                      /\ calls[n].key = T
                      /\ \E m \in 1..(n - 1) :
                            /\ calls[m].env = k
                            /\ calls[m].site = "dlqTopic"
                            /\ calls[m].key = T
                            /\ Ok(m) )
                    => /\ calls[n].res = "AlreadyExists"
                       /\ n = Len(calls)
                       /\ pc \in {"return", "exit"}
                       /\ err.kind = "DLQTopicCreateError"
                       /\ err.cause = "AlreadyExists"

C20_Witness ==
    /\ pc = "exit"
    /\ reported.kind = "DLQTopicCreateError"
    /\ reported.cause = "AlreadyExists"
    /\ calls[Len(calls)].pos = 2
    /\ \E n \in CallIdx :
        /\ calls[n].env = calls[Len(calls)].env
        /\ IsPrimary(calls[n])
        /\ calls[n].pos = 1
        /\ Ok(n)

====
